---- MODULE Spec2Model ----
(***************************************************************************)
(* Multi-LLM proxy: configuration loader, backend factory, the two backend *)
(* strategies and the proxy server that ties them together.                *)
(*                                                                         *)
(* JavaScript objects are records whose DOMAIN is the set of keys present, *)
(* so "key absent" and "key present with a falsy value" stay distinct.     *)
(* A text is a sequence of pieces; concatenation is \o and "includes" is   *)
(* membership of a piece, so interpolating an upstream text into a message *)
(* keeps every piece of that text.                                         *)
(***************************************************************************)
EXTENDS Integers, Sequences, FiniteSets, TLC

VARIABLES
    globalFile,       \* ~/.llm-proxy/config.json
    projectFile,      \* <workspace>/.llmrc.json
    envVar,           \* process.env.LLM_BACKEND_CONFIG
    loadOut,          \* outcome of the last ConfigLoader.load call
    app,              \* ProxyServer.app: "none" | "ready" | "listening" | "closed"
    config,           \* ProxyServer.config
    currentStrategy,  \* ProxyServer.currentStrategy
    server,           \* ProxyServer.server
    nextInst,         \* number of Strategy instances constructed so far
    inflight,         \* POST /v1/messages handlers suspended in executeRequest
    nextReq,          \* number of requests received so far
    delegated,        \* ids of the requests for which executeRequest was invoked
    lastResponse,     \* the HTTP response the step just taken sent, if any
    lastCall,         \* how the initialize/start/stop/reloadConfig call just made ended
    execStrategy,     \* strategy instance under test
    execBackend,      \* what the backend does with the outbound call
    execOut,          \* outcome of the last executeRequest or checkHealth call
    factoryConfig,    \* backend entry handed to BackendFactory.createStrategy
    factoryOut,       \* outcome of the last createStrategy call
    savePath,         \* the file at the path ConfigLoader.save writes to
    saveCall,         \* the save call: its argument and how far it has got
    cwdFile,          \* <process.cwd()>/.llmrc.json
    execOp            \* which outbound call of the strategy is awaited

vars == <<globalFile, projectFile, envVar, loadOut, app, config, currentStrategy,
          server, nextInst, inflight, nextReq, delegated, lastResponse, lastCall,
          execStrategy, execBackend, execOut, factoryConfig, factoryOut,
          savePath, saveCall, cwdFile, execOp>>

serverVars == <<app, config, currentStrategy, server, nextInst, inflight, nextReq,
                delegated, lastResponse, lastCall>>
execVars == <<execStrategy, execBackend, execOut>>
factoryVars == <<factoryConfig, factoryOut>>
saveVars == <<savePath, saveCall>>

-----------------------------------------------------------------------------
(* JavaScript values *)

Null == [null |-> TRUE]
EmptyObject == [k \in {} |-> TRUE]
Has(obj, key) == key \in DOMAIN obj
Num(n) == [num |-> n]
Str(s) == [str |-> s]

\* !v for a number or a string value
Falsy(v) == v = Num(0) \/ v = Str("")

\* { ...a, ...b }
Spread(a, b) == [k \in DOMAIN a \cup DOMAIN b |-> IF k \in DOMAIN b THEN b[k] ELSE a[k]]

\* text.includes(piece)
Includes(text, piece) == \E i \in 1..Len(text) : text[i] = piece

\* strings that are empty after trim()
BlankStrings == {"", "   "}

\* strings new URL() accepts
ParsableURLs == {"http://localhost:8000", "http://vast-instance:8000",
                 "http://runpod-instance:8000", "http://project:8000",
                 "http://global:8000", "http://env:8000"}

-----------------------------------------------------------------------------
(* ConfigLoader *)

getDefaultConfig ==
    [backend |-> "self-hosted",
     port |-> Str("auto"),
     backends |->
        [cerebras |-> [type |-> "cerebras", apiKey |-> "YOUR_CEREBRAS_API_KEY",
                       apiUrl |-> "https://api.cerebras.ai/v1"],
         runpod |-> [type |-> "self-hosted", url |-> "http://runpod-instance:8000",
                     description |-> "RunPod instance with persistent storage"]]
        @@ ("self-hosted" :> [type |-> "self-hosted", url |-> "http://localhost:8000",
                              description |-> "Local Python proxy (simple_api_proxy.py)"])
        @@ ("vast-ai" :> [type |-> "self-hosted", url |-> "http://vast-instance:8000",
                          description |-> "Vast.ai instance with Redis caching"])]

mergeConfigs_baseWins(base, override) ==
    [key \in DOMAIN base \cup DOMAIN override |->
        IF key = "backends"
        THEN Spread(IF Has(base, "backends") THEN base.backends ELSE EmptyObject,
                    IF Has(override, "backends") THEN override.backends ELSE EmptyObject)
        ELSE IF key \in DOMAIN base THEN base[key] ELSE override[key]]

mergeConfigs_deepMerge(base, override) ==
    [key \in DOMAIN base \cup DOMAIN override |->
        IF key \in DOMAIN override
        THEN IF key = "backends"
             THEN LET old == IF Has(base, "backends") THEN base.backends ELSE EmptyObject
                  IN  [name \in DOMAIN old \cup DOMAIN override.backends |->
                         IF name \in DOMAIN old /\ name \in DOMAIN override.backends
                         THEN Spread(old[name], override.backends[name])
                         ELSE IF name \in DOMAIN old THEN old[name]
                         ELSE override.backends[name]]
             ELSE override[key]
        ELSE base[key]]

mergeConfigs(base, override) ==
    [key \in DOMAIN base \cup DOMAIN override |->
        IF key \in DOMAIN override
        THEN IF key = "backends"
             THEN Spread(IF Has(base, "backends") THEN base.backends ELSE EmptyObject,
                         override.backends)
             ELSE override[key]
        ELSE base[key]]

\* new Error(message), and a TypeError raised by the runtime
Error(message) == [name |-> "Error", message |-> message]
TypeError(message) == [name |-> "TypeError", message |-> message]

\* completion of a call: { ok: true, value } on return, { ok: false, error } on throw
Thrown(error) == [ok |-> FALSE, error |-> error]
Returned(value) == [ok |-> TRUE, value |-> value]

validateBackend(name, backend) ==
    IF ~Has(backend, "type") \/ backend.type = ""
    THEN Thrown(Error(<<"Backend \"", name, "\" missing required field: type">>))
    ELSE IF backend.type = "cerebras"
    THEN IF ~Has(backend, "apiKey") \/ backend.apiKey = ""
         THEN Thrown(Error(<<"Backend \"", name, "\" missing required field: apiKey">>))
         ELSE Returned(TRUE)
    ELSE IF backend.type = "self-hosted"
    THEN IF ~Has(backend, "url") \/ backend.url = ""
         THEN Thrown(Error(<<"Backend \"", name, "\" missing required field: url">>))
         ELSE Returned(TRUE)
    ELSE Thrown(Error(<<"Backend \"", name, "\" has invalid type: ", backend.type>>))

validateConfig(cfg) ==
    IF ~Has(cfg, "backend") \/ cfg.backend = ""
    THEN Thrown(Error(<<"Missing required field: backend">>))
    ELSE IF ~Has(cfg, "backends")
    THEN Thrown(Error(<<"Missing required field: backends">>))
    ELSE IF ~Has(cfg.backends, cfg.backend)
    THEN Thrown(Error(<<"Backend \"", cfg.backend, "\" not found in backends configuration">>))
    ELSE validateBackend(cfg.backend, cfg.backends[cfg.backend])

\* A configuration source: a file that may be missing or unreadable, or the
\* environment variable that may be unset or not JSON.
Absent == [st |-> "absent"]
Malformed == [st |-> "malformed"]
Json(obj) == [st |-> "ok", json |-> obj]

\* one "if exists, read, merge, mark explicit" block of load; a read or parse
\* failure is caught and the block leaves its input unchanged
loadSource_malformedIsExplicit(acc, source) ==
    IF source.st = "ok"
    THEN [config |-> mergeConfigs(acc.config, source.json), hasExplicitConfig |-> TRUE]
    ELSE IF source.st = "malformed"
    THEN [config |-> acc.config, hasExplicitConfig |-> TRUE]
    ELSE acc

loadSource(acc, source) ==
    IF source.st = "ok"
    THEN [config |-> mergeConfigs(acc.config, source.json), hasExplicitConfig |-> TRUE]
    ELSE acc

fillDefaults_defaultsWin(cfg) ==
    LET withBackends == IF Has(cfg, "backends") THEN cfg
                        ELSE Spread(cfg, [backends |-> EmptyObject])
        filled == [withBackends EXCEPT !.backends =
                      Spread(withBackends.backends, getDefaultConfig.backends)]
    IN  IF ~Has(filled, "port") \/ Falsy(filled.port)
        THEN Spread(filled, [port |-> getDefaultConfig.port])
        ELSE filled

\* the "merge with defaults for missing backends only" branch of load
fillDefaults(cfg) ==
    LET withBackends == IF Has(cfg, "backends") THEN cfg
                        ELSE Spread(cfg, [backends |-> EmptyObject])
        filled == [withBackends EXCEPT !.backends =
                      Spread(getDefaultConfig.backends, withBackends.backends)]
    IN  IF ~Has(filled, "port") \/ Falsy(filled.port)
        THEN Spread(filled, [port |-> getDefaultConfig.port])
        ELSE filled

load_defaultBackend(global, project, env) ==
    LET start == [config |-> EmptyObject, hasExplicitConfig |-> FALSE]
        merged == loadSource(loadSource(loadSource(start, global), project), env)
        final == IF ~merged.hasExplicitConfig
                 THEN getDefaultConfig
                 ELSE Spread([backend |-> getDefaultConfig.backend],
                             fillDefaults(merged.config))
        check == validateConfig(final)
    IN  IF check.ok THEN Returned(final) ELSE check

load(global, project, env) ==
    LET start == [config |-> EmptyObject, hasExplicitConfig |-> FALSE]
        merged == loadSource(loadSource(loadSource(start, global), project), env)
        final == IF ~merged.hasExplicitConfig
                 THEN getDefaultConfig
                 ELSE fillDefaults(merged.config)
        check == validateConfig(final)
    IN  IF check.ok THEN Returned(final) ELSE check

\* a value that is neither undefined nor the empty string
Truthy(obj, key) == Has(obj, key) /\ obj[key] # ""

configContainsSecrets_apiKeyOnly(cfg) ==
    IF ~Has(cfg, "backends") THEN FALSE
    ELSE \E name \in DOMAIN cfg.backends : Truthy(cfg.backends[name], "apiKey")

configContainsSecrets(cfg) ==
    IF ~Has(cfg, "backends") THEN FALSE
    ELSE \E name \in DOMAIN cfg.backends :
            \/ Truthy(cfg.backends[name], "apiKey")
            \/ Truthy(cfg.backends[name], "password")
            \/ Truthy(cfg.backends[name], "token")

\* permission bits as the octal digits for owner, group and others
OwnerOnly == <<6, 0, 0>>

\* fs.writeJson: a new file gets the mode the process's umask leaves, an
\* existing file keeps its mode and takes the new content; a file its owner
\* may not write to refuses
writeJson(file, cfg, createMode) ==
    IF ~file.exists
    THEN Returned([exists |-> TRUE, content |-> cfg, mode |-> createMode])
    ELSE IF file.mode[1] \in {2, 3, 6, 7}
    THEN Returned([file EXCEPT !.content = cfg])
    ELSE Thrown(Error(<<"EACCES: permission denied">>) @@ [code |-> "EACCES"])

\* fs.chmod(path, 0o600)
chmod(file, mode) == [file EXCEPT !.mode = mode]

-----------------------------------------------------------------------------
(* CerebrasStrategy *)

CerebrasStrategy_validateConfig(cfg) ==
    IF ~Has(cfg, "apiKey") \/ cfg.apiKey \in BlankStrings
    THEN Thrown(Error(<<"Cerebras strategy requires apiKey">>))
    ELSE Returned(TRUE)

CerebrasStrategy_constructor(cfg) ==
    LET check == CerebrasStrategy_validateConfig(cfg)
    IN  IF ~check.ok THEN check
        ELSE Returned([class |-> "CerebrasStrategy",
                       apiKey |-> cfg.apiKey,
                       apiUrl |-> IF Has(cfg, "apiUrl") /\ cfg.apiUrl # ""
                                  THEN cfg.apiUrl ELSE "https://api.cerebras.ai/v1"])

\* key: value entries of an object literal; a value that is undefined is not
\* part of the object as the caller receives it
Field(key, present, value) == IF present THEN (key :> value) ELSE EmptyObject

\* usage?.counter || 0
Counter(data, key) ==
    IF Has(data, "usage") /\ Has(data.usage, key) THEN data.usage[key] ELSE 0

CannotRead == <<"Cannot read properties of undefined">>

transformResponse_noStopMapping(data) ==
    IF data = Null \/ ~Has(data, "choices") \/ Len(data.choices) = 0
    THEN Thrown(TypeError(CannotRead))
    ELSE LET choice == data.choices[1]
         IN  IF ~Has(choice, "message")
             THEN Thrown(TypeError(CannotRead))
             ELSE Returned(
                    Field("id", Has(data, "id"), data.id)
                    @@ [type |-> "message", role |-> "assistant"]
                    @@ [content |->
                          <<[type |-> "text"]
                            @@ Field("text", Has(choice.message, "content"),
                                     choice.message.content)>>]
                    @@ Field("model", Has(data, "model"), data.model)
                    @@ Field("stop_reason", Has(choice, "finish_reason"),
                             choice.finish_reason)
                    @@ [stop_sequence |-> Null,
                        usage |-> [input_tokens |-> Counter(data, "prompt_tokens"),
                                   output_tokens |-> Counter(data, "completion_tokens")]])

transformResponse(data) ==
    IF data = Null \/ ~Has(data, "choices") \/ Len(data.choices) = 0
    THEN Thrown(TypeError(CannotRead))
    ELSE LET choice == data.choices[1]
         IN  IF ~Has(choice, "message")
             THEN Thrown(TypeError(CannotRead))
             ELSE Returned(
                    Field("id", Has(data, "id"), data.id)
                    @@ [type |-> "message", role |-> "assistant"]
                    @@ [content |->
                          <<[type |-> "text"]
                            @@ Field("text", Has(choice.message, "content"),
                                     choice.message.content)>>]
                    @@ Field("model", Has(data, "model"), data.model)
                    @@ Field("stop_reason", Has(choice, "finish_reason"),
                             IF choice.finish_reason = "stop" THEN "end_turn"
                             ELSE choice.finish_reason)
                    @@ [stop_sequence |-> Null,
                        usage |-> [input_tokens |-> Counter(data, "prompt_tokens"),
                                   output_tokens |-> Counter(data, "completion_tokens")]])

\* errorData.error || fallback; reading a property of a null body throws
ErrorText(errorData, fallback) ==
    IF Has(errorData, "error") /\ errorData.error # <<>> THEN errorData.error ELSE fallback

CerebrasStrategy_handleError(self, error) ==
    IF Has(error, "response")
    THEN LET status == error.response.status
             errorData == error.response.data
         IN  IF status = 401
             THEN IF errorData = Null THEN Thrown(TypeError(CannotRead))
                  ELSE Returned(Error(<<"Cerebras API authentication failed: ">>
                                      \o ErrorText(errorData, <<"Invalid credentials">>)
                                      \o <<". Please check your API key configuration.">>))
             ELSE IF status = 429
             THEN Returned(Error(<<"Cerebras API rate limit exceeded. Please try again later or consider using a self-hosted backend.">>)
                           @@ [recommendations |->
                                 <<"Wait before retrying the request",
                                   "Switch to self-hosted backend: llm-proxy switch self-hosted",
                                   "Consider upgrading your Cerebras plan">>])
             ELSE IF status = 503
             THEN Returned(Error(<<"Cerebras API service unavailable. The service may be experiencing issues.">>)
                           @@ [recommendations |->
                                 <<"Try switching to self-hosted backend: llm-proxy switch self-hosted",
                                   "Check Cerebras status page for service issues",
                                   "Consider using vast-ai or runpod backends for reliability">>])
             ELSE IF errorData = Null THEN Thrown(TypeError(CannotRead))
                  ELSE Returned(Error(<<"Cerebras API error (", ToString(status), "): ">>
                                      \o ErrorText(errorData, <<"Unknown error">>))
                                @@ [recommendations |->
                                      <<"Check Cerebras API documentation",
                                        "Try switching to self-hosted backend: llm-proxy switch self-hosted">>])
    ELSE IF Has(error, "code") /\ error.code \in {"ECONNREFUSED", "ENOTFOUND"}
    THEN Returned(Error(<<"Cannot connect to Cerebras API. Please check your internet connection.">>)
                  @@ [recommendations |->
                        <<"Check your internet connection",
                          "Verify DNS resolution",
                          "Try switching to self-hosted backend: llm-proxy switch self-hosted">>])
    ELSE Returned(Error(<<"Cerebras API request failed: ">> \o error.message)
                  @@ [recommendations |->
                        <<"Try switching to self-hosted backend: llm-proxy switch self-hosted">>])

\* catch (error) { throw this.handleError(error) }: what handleError returns is
\* thrown, and what handleError itself throws escapes as it is
CerebrasStrategy_rethrow(self, error) ==
    LET handled == CerebrasStrategy_handleError(self, error)
    IN  IF handled.ok THEN Thrown(handled.value) ELSE handled

\* backend is what axios.post settles with: [data |-> body] when it resolves,
\* [error |-> axios error] when it rejects
CerebrasStrategy_executeRequest(self, backend) ==
    IF Has(backend, "data")
    THEN LET transformed == transformResponse(backend.data)
         IN  IF transformed.ok THEN transformed
             ELSE CerebrasStrategy_rethrow(self, transformed.error)
    ELSE CerebrasStrategy_rethrow(self, backend.error)

-----------------------------------------------------------------------------
(* SelfHostedStrategy *)

SelfHostedStrategy_validateConfig_noUrlParse(cfg) ==
    IF ~Has(cfg, "url") \/ cfg.url \in BlankStrings
    THEN Thrown(Error(<<"Self-hosted strategy requires url">>))
    ELSE Returned(TRUE)

SelfHostedStrategy_validateConfig(cfg) ==
    IF ~Has(cfg, "url") \/ cfg.url \in BlankStrings
    THEN Thrown(Error(<<"Self-hosted strategy requires url">>))
    ELSE IF cfg.url \notin ParsableURLs
    THEN Thrown(Error(<<"Invalid URL format">>))
    ELSE Returned(TRUE)

SelfHostedStrategy_constructor(cfg) ==
    LET check == SelfHostedStrategy_validateConfig(cfg)
    IN  IF ~check.ok THEN check
        ELSE Returned([class |-> "SelfHostedStrategy",
                       url |-> cfg.url,
                       description |-> IF Has(cfg, "description") /\ cfg.description # ""
                                       THEN cfg.description ELSE "Self-hosted proxy"])

\* errorData.error || errorData.detail || 'Unknown error'
SelfHostedErrorText(errorData) ==
    IF Has(errorData, "error") /\ errorData.error # <<>> THEN errorData.error
    ELSE IF Has(errorData, "detail") /\ errorData.detail # <<>> THEN errorData.detail
    ELSE <<"Unknown error">>

SelfHostedStrategy_handleError(self, error) ==
    IF Has(error, "code") /\ error.code \in {"ECONNREFUSED", "ENOTFOUND"}
    THEN Returned(Error(<<"Cannot connect to self-hosted proxy at ", self.url,
                          ". Please ensure the proxy is running.">>)
                  @@ [recommendations |->
                        <<"Check if the Python proxy is running: python3 simple_api_proxy.py",
                          "Verify the proxy URL in your configuration",
                          "Try switching to Cerebras backend: llm-proxy switch cerebras",
                          "Check proxy logs for error details">>])
    ELSE IF (Has(error, "code") /\ error.code = "ECONNABORTED")
            \/ (Has(error, "message") /\ Includes(error.message, "timeout"))
    THEN Returned(Error(<<"Self-hosted proxy request timed out. The model may be loading or overloaded.">>)
                  @@ [recommendations |->
                        <<"Wait for the model to finish loading",
                          "Check if the GPU has sufficient memory",
                          "Try switching to Cerebras backend: llm-proxy switch cerebras",
                          "Restart the Python proxy if it appears stuck">>])
    ELSE IF Has(error, "response")
    THEN LET status == error.response.status
             errorData == error.response.data
         IN  IF errorData = Null THEN Thrown(TypeError(CannotRead))
             ELSE LET errorMessage == SelfHostedErrorText(errorData)
                  IN  IF Includes(errorMessage, "not found")
                         \/ (Includes(errorMessage, "model") /\ Includes(errorMessage, "not"))
                      THEN Returned(Error(<<"Model not loaded on self-hosted proxy: ">>
                                          \o errorMessage)
                                    @@ [recommendations |->
                                          <<"Run: ollama pull qwen3-coder",
                                            "Check available models: ollama list",
                                            "Verify model name in configuration",
                                            "Try switching to Cerebras backend: llm-proxy switch cerebras">>])
                      ELSE Returned(Error(<<"Self-hosted proxy error (", ToString(status), "): ">>
                                          \o errorMessage)
                                    @@ [recommendations |->
                                          <<"Check proxy logs for detailed error information",
                                            "Verify the proxy is running correctly",
                                            "Try switching to Cerebras backend: llm-proxy switch cerebras">>])
    ELSE Returned(Error(<<"Self-hosted proxy request failed: ">>
                        \o (IF Has(error, "message") /\ error.message # <<>>
                            THEN error.message ELSE <<"Unknown error">>))
                  @@ [recommendations |->
                        <<"Check your network connection",
                          "Verify the proxy URL is correct",
                          "Try switching to Cerebras backend: llm-proxy switch cerebras">>])

SelfHostedStrategy_rethrow(self, error) ==
    LET handled == SelfHostedStrategy_handleError(self, error)
    IN  IF handled.ok THEN Thrown(handled.value) ELSE handled

\* the response body is returned as it came
SelfHostedStrategy_executeRequest(self, backend) ==
    IF Has(backend, "data")
    THEN Returned(backend.data)
    ELSE SelfHostedStrategy_rethrow(self, backend.error)

-----------------------------------------------------------------------------
(* BackendFactory *)

getSupportedTypes == <<"cerebras", "self-hosted">>

\* getSupportedTypes().includes(type)
isSupported(type) == \E i \in 1..Len(getSupportedTypes) : getSupportedTypes[i] = type

createStrategy_noSupportedTypes(cfg) ==
    IF cfg = Null \/ ~Has(cfg, "type") \/ cfg.type = ""
    THEN Thrown(Error(<<"Backend configuration missing required field: type">>))
    ELSE IF cfg.type = "cerebras" THEN CerebrasStrategy_constructor(cfg)
    ELSE IF cfg.type = "self-hosted" THEN SelfHostedStrategy_constructor(cfg)
    ELSE Thrown(Error(<<"Unknown backend type: ", cfg.type>>))

createStrategy(cfg) ==
    IF cfg = Null \/ ~Has(cfg, "type") \/ cfg.type = ""
    THEN Thrown(Error(<<"Backend configuration missing required field: type">>))
    ELSE IF cfg.type = "cerebras" THEN CerebrasStrategy_constructor(cfg)
    ELSE IF cfg.type = "self-hosted" THEN SelfHostedStrategy_constructor(cfg)
    ELSE Thrown(Error(<<"Unknown backend type: ", cfg.type>>)
                @@ [supportedTypes |-> getSupportedTypes])

\* strategy.executeRequest(messages, options), dispatched on the instance's class
executeRequest(strategy, backend) ==
    IF strategy.class = "CerebrasStrategy"
    THEN CerebrasStrategy_executeRequest(strategy, backend)
    ELSE SelfHostedStrategy_executeRequest(strategy, backend)

-----------------------------------------------------------------------------
(* Bounds *)

MaxRequests == 2      \* requests received in one behaviour
MaxInflight == 2      \* handlers suspended in executeRequest at the same time
MaxInstances == 2     \* Strategy instances constructed in one behaviour

-----------------------------------------------------------------------------
(* Request bodies, configuration files and backend outcomes the server meets *)

Arr(seq) == [arr |-> seq]
Hello == [role |-> "user", content |-> "Hello"]

RequestBodies ==
    {Null,                                   \* no payload: request.body is undefined
     EmptyObject,
     [messages |-> Arr(<<>>)],
     [messages |-> Str("not-an-array")],
     [messages |-> Num(0)],
     [messages |-> Arr(<<Hello>>), max_tokens |-> Num(100)]}

cfgCerebras ==
    [backend |-> "cerebras", port |-> Num(0),
     backends |-> [cerebras |-> [type |-> "cerebras", apiKey |-> "test-key"]]
                  @@ ("self-hosted" :> [type |-> "self-hosted", url |-> "http://localhost:8000"])]
cfgSelfHosted == [cfgCerebras EXCEPT !.backend = "self-hosted"]
cfgBadUrl ==
    [backend |-> "self-hosted",
     backends |-> ("self-hosted" :> [type |-> "self-hosted", url |-> "not-a-url"])]
cfgNonexistent == [backend |-> "nonexistent"]

ProjectFiles == {Json(cfgCerebras), Json(cfgSelfHosted), Json(cfgBadUrl), Json(cfgNonexistent)}

AnthropicBody ==
    [id |-> "msg_123", type |-> "message", role |-> "assistant",
     content |-> <<[type |-> "text", text |-> "Hello!"]>>, model |-> "qwen3-coder",
     stop_reason |-> "end_turn", stop_sequence |-> Null,
     usage |-> [input_tokens |-> 5, output_tokens |-> 3]]
CerebrasBody ==
    [id |-> "chatcmpl-1", model |-> "qwen-3-coder-480b",
     choices |-> <<[message |-> [role |-> "assistant", content |-> "hi"],
                    finish_reason |-> "stop"]>>,
     usage |-> [prompt_tokens |-> 3, completion_tokens |-> 1]]

HttpError(status, data) ==
    [response |-> [status |-> status, data |-> data],
     message |-> <<"Request failed with status code ", ToString(status)>>]
NetworkError(code) == [code |-> code, message |-> <<"connect ", code>>]
TimeoutError == [code |-> "ECONNABORTED", message |-> <<"timeout", " of 30000ms exceeded">>]

ServerBackendOutcomes ==
    {[data |-> AnthropicBody], [data |-> CerebrasBody],
     [error |-> HttpError(401, [error |-> <<"bad key">>])],
     [error |-> NetworkError("ECONNREFUSED")]}

\* findFreePort(8000, 8100) resolves to the free ports of the scan range
ScanRange == 8000..8100
FreePorts == {8000, 8001}

-----------------------------------------------------------------------------
(* ProxyServer *)

\* the instance a constructor call returns: its fields and its identity
Instance(strategy, identity) == strategy @@ [inst |-> identity]

initializeBackend(cfg) ==
    IF ~Has(cfg.backends, cfg.backend)
    THEN Thrown(Error(<<"Backend \"", cfg.backend, "\" not found in configuration">>))
    ELSE createStrategy(cfg.backends[cfg.backend])

afterLoad_keepStrategy(loaded) ==
    [config |-> IF loaded.ok THEN loaded.value ELSE config,
     strategy |-> IF currentStrategy = Null /\ loaded.ok /\ initializeBackend(loaded.value).ok
                  THEN Instance(initializeBackend(loaded.value).value, nextInst + 1)
                  ELSE currentStrategy,
     result |-> IF ~loaded.ok THEN loaded
                ELSE IF ~initializeBackend(loaded.value).ok
                THEN initializeBackend(loaded.value)
                ELSE Returned(TRUE)]

\* the fields initialize() and reloadConfig() leave behind: this.config is
\* assigned as soon as load resolves, this.currentStrategy only when the
\* factory returns
afterLoad(loaded) ==
    LET built == initializeBackend(loaded.value)
    IN  [config |-> IF loaded.ok THEN loaded.value ELSE config,
         strategy |-> IF loaded.ok /\ built.ok
                      THEN Instance(built.value, nextInst + 1)
                      ELSE currentStrategy,
         result |-> IF ~loaded.ok THEN loaded
                    ELSE IF ~built.ok THEN built
                    ELSE Returned(TRUE)]

Initialize ==
    /\ nextInst < MaxInstances
    /\ LET loaded == load(globalFile, projectFile, envVar)
           after == afterLoad(loaded)
       IN  /\ config' = after.config
           /\ app' = IF loaded.ok THEN "ready" ELSE app
           /\ currentStrategy' = after.strategy
           /\ nextInst' = IF after.result.ok THEN nextInst + 1 ELSE nextInst
           /\ lastCall' = [op |-> "initialize"] @@ after.result
    /\ UNCHANGED <<globalFile, projectFile, envVar, loadOut, server, inflight, nextReq,
                   delegated, execVars, factoryVars, saveVars, cwdFile, execOp>>
    /\ lastResponse' = Null

ReloadConfig ==
    /\ nextInst < MaxInstances
    /\ LET loaded == load(globalFile, projectFile, envVar)
           after == afterLoad(loaded)
       IN  /\ config' = after.config
           /\ currentStrategy' = after.strategy
           /\ nextInst' = IF after.result.ok THEN nextInst + 1 ELSE nextInst
           /\ lastCall' = [op |-> "reloadConfig"] @@ after.result
    /\ UNCHANGED <<globalFile, projectFile, envVar, loadOut, app, server, inflight, nextReq,
                   delegated, execVars, factoryVars, saveVars, cwdFile, execOp>>
    /\ lastResponse' = Null

\* app.listen(): a closed or already listening application refuses
listen(appState) ==
    IF appState = "closed"
    THEN Thrown(Error(<<"Fastify has already been closed and cannot be reopened">>))
    ELSE IF appState = "listening"
    THEN Thrown(Error(<<"Fastify is already listening">>))
    ELSE Returned(TRUE)

portChoices_alwaysScan(port) == FreePorts

\* the port start binds: the first free port of the scan when the configured
\* port is 'auto' or 0, the configured port otherwise
portChoices(port) ==
    IF port \in {Str("auto"), Num(0)} THEN FreePorts ELSE {port.num}

Start ==
    /\ app = "none" => nextInst < MaxInstances
    /\ LET needsInit == app = "none"
           loaded == load(globalFile, projectFile, envVar)
           after == IF needsInit THEN afterLoad(loaded)
                    ELSE [config |-> config, strategy |-> currentStrategy,
                          result |-> Returned(TRUE)]
           appAfterInit == IF needsInit /\ loaded.ok THEN "ready" ELSE app
           listening == listen(appAfterInit)
       IN  /\ config' = after.config
           /\ currentStrategy' = after.strategy
           /\ nextInst' = IF needsInit /\ after.result.ok THEN nextInst + 1 ELSE nextInst
           /\ IF ~after.result.ok
              THEN /\ app' = appAfterInit
                   /\ server' = server
                   /\ lastCall' = [op |-> "start"] @@ after.result
              ELSE IF ~listening.ok
              THEN /\ app' = appAfterInit
                   /\ server' = server
                   /\ lastCall' = [op |-> "start"] @@ listening
              ELSE \E port \in portChoices(after.config.port) :
                   /\ app' = "listening"
                   /\ server' = [port |-> port]
                   /\ lastCall' = [op |-> "start"]
                                  @@ Returned([port |-> port,
                                               url |-> <<"http://localhost:", ToString(port)>>])
    /\ UNCHANGED <<globalFile, projectFile, envVar, loadOut, inflight, nextReq,
                   delegated, execVars, factoryVars, saveVars, cwdFile, execOp>>
    /\ lastResponse' = Null

Stop_closesAlways ==
    /\ app' = "closed"
    /\ server' = Null
    /\ lastCall' = [op |-> "stop"] @@ Returned(TRUE)
    /\ UNCHANGED <<globalFile, projectFile, envVar, loadOut, config, currentStrategy,
                   nextInst, inflight, nextReq, delegated, execVars, factoryVars, saveVars,
                   cwdFile, execOp>>
    /\ lastResponse' = Null

Stop ==
    /\ IF server # Null
       THEN app' = "closed" /\ server' = Null
       ELSE UNCHANGED <<app, server>>
    /\ lastCall' = [op |-> "stop"] @@ Returned(TRUE)
    /\ UNCHANGED <<globalFile, projectFile, envVar, loadOut, config, currentStrategy,
                   nextInst, inflight, nextReq, delegated, execVars, factoryVars, saveVars, cwdFile, execOp>>
    /\ lastResponse' = Null

\* the workspace's .llmrc.json is rewritten
WriteProjectFile ==
    /\ \E file \in ProjectFiles : projectFile' = file /\ file # projectFile
    /\ lastResponse' = Null
    /\ lastCall' = Null
    /\ UNCHANGED <<globalFile, envVar, loadOut, app, config, currentStrategy, server,
                   nextInst, inflight, nextReq, delegated, execVars, factoryVars, saveVars, cwdFile, execOp>>

-----------------------------------------------------------------------------
(* ProxyServer routes *)

Routable == app \in {"ready", "listening"}

validMessages_anyArray(body) ==
    /\ Has(body, "messages")
    /\ ~Falsy(body.messages)
    /\ Has(body.messages, "arr")

\* messages && Array.isArray(messages) && messages.length !== 0
validMessages(body) ==
    /\ Has(body, "messages")
    /\ ~Falsy(body.messages)
    /\ Has(body.messages, "arr")
    /\ Len(body.messages.arr) # 0

badRequest ==
    [status |-> 400,
     body |-> [error |-> <<"Messages field is required and must be a non-empty array">>]]

errorReply_noDefault(error) ==
    [status |-> 500,
     body |-> [error |-> error.message,
               recommendations |->
                  IF Has(error, "recommendations") THEN error.recommendations ELSE <<>>]]

\* the catch block of POST /v1/messages
errorReply(error) ==
    [status |-> 500,
     body |-> [error |-> error.message,
               recommendations |->
                  IF Has(error, "recommendations") THEN error.recommendations
                  ELSE <<"Check backend configuration",
                         "Try switching to a different backend">>]]

servingStrategy_current(request) == currentStrategy

\* the instance whose executeRequest a suspended handler is running
servingStrategy(request) == request.strategy

\* POST /v1/messages up to "await this.currentStrategy.executeRequest(...)"
PostMessages ==
    /\ Routable
    /\ nextReq < MaxRequests
    /\ Cardinality(inflight) < MaxInflight
    /\ nextReq' = nextReq + 1
    /\ \E body \in RequestBodies :
         LET id == nextReq + 1
             tag == [route |-> "POST /v1/messages", req |-> id, payload |-> body]
         IN  IF body = Null
             THEN /\ lastResponse' = tag @@ errorReply(TypeError(CannotRead))
                  /\ UNCHANGED <<inflight, delegated>>
             ELSE IF ~validMessages(body)
             THEN /\ lastResponse' = tag @@ badRequest
                  /\ UNCHANGED <<inflight, delegated>>
             ELSE IF currentStrategy = Null
             THEN /\ lastResponse' = tag @@ errorReply(TypeError(CannotRead))
                  /\ UNCHANGED <<inflight, delegated>>
             ELSE /\ inflight' = inflight \cup
                        {[id |-> id, payload |-> body, strategy |-> currentStrategy]}
                  /\ delegated' = delegated \cup {id}
                  /\ lastResponse' = Null
    /\ UNCHANGED <<globalFile, projectFile, envVar, loadOut, app, config, currentStrategy,
                   server, nextInst, execVars, factoryVars, saveVars, cwdFile, execOp>>
    /\ lastCall' = Null

afterReply_retryOnFailure(request, outcome) ==
    IF outcome.ok THEN inflight \ {request} ELSE inflight

\* the handlers still suspended once this one has replied: it returns the
\* result or the 500 reply and does not call executeRequest again
afterReply(request, outcome) == inflight \ {request}

\* the outbound call of a suspended handler settles and the handler replies
CompleteRequest ==
    /\ \E request \in inflight, backend \in ServerBackendOutcomes :
         LET self == servingStrategy(request)
             outcome == executeRequest(self, backend)
             tag == [route |-> "POST /v1/messages", req |-> request.id,
                     payload |-> request.payload, delegatedTo |-> request.strategy,
                     servedBy |-> self, backend |-> backend]
         IN  /\ inflight' = afterReply(request, outcome)
             /\ lastResponse' = tag @@ (IF outcome.ok
                                        THEN [status |-> 200, body |-> outcome.value]
                                        ELSE [thrown |-> outcome.error]
                                             @@ errorReply(outcome.error))
    /\ UNCHANGED <<globalFile, projectFile, envVar, loadOut, app, config, currentStrategy,
                   server, nextInst, nextReq, delegated, execVars, factoryVars, saveVars, cwdFile, execOp>>
    /\ lastCall' = Null

GetRoot ==
    /\ Routable
    /\ lastResponse' = [route |-> "GET /", status |-> 200,
                        body |-> [service |-> "Multi-LLM Proxy Server", status |-> "running",
                                  backend |-> config.backend, version |-> "1.0.0"]]
    /\ UNCHANGED <<globalFile, projectFile, envVar, loadOut, app, config, currentStrategy,
                   server, nextInst, inflight, nextReq, delegated, execVars, factoryVars, saveVars, cwdFile, execOp>>
    /\ lastCall' = Null

HealthProbes ==
    {[data |-> [status |-> "healthy"]], [data |-> [status |-> "unhealthy"]],
     [error |-> NetworkError("ECONNREFUSED")]}

checkHealth_dataWins(self, probe) ==
    IF Has(probe, "data")
    THEN Returned(IF probe.data = Null THEN [endpoint |-> self.url]
                  ELSE Spread([endpoint |-> self.url], probe.data))
    ELSE Returned([status |-> "unhealthy", error |-> "Cannot connect to proxy",
                   endpoint |-> self.url])

\* SelfHostedStrategy.checkHealth: { ...response.data, endpoint: this.url }
\* when the probe resolves (spreading a null body adds nothing); every failure
\* of the probe is caught
checkHealth(self, probe) ==
    IF Has(probe, "data")
    THEN Returned(IF probe.data = Null THEN [endpoint |-> self.url]
                  ELSE Spread(probe.data, [endpoint |-> self.url]))
    ELSE Returned([status |-> "unhealthy", error |-> "Cannot connect to proxy",
                   endpoint |-> self.url])

\* typeof strategy.checkHealth === 'function'
hasCheckHealth(strategy) == strategy.class = "SelfHostedStrategy"

healthReply_absentIsUnhealthy(strategy, probe, health) ==
    IF strategy # Null /\ hasCheckHealth(strategy)
    THEN LET probed == checkHealth(strategy, probe)
         IN  IF probed.ok
             THEN health @@ [backendHealth |-> probed.value]
             ELSE [status |-> "degraded",
                   backendHealth |-> [status |-> "unhealthy",
                                      error |-> probed.error.message]] @@ health
    ELSE IF strategy # Null
    THEN [status |-> "degraded",
          backendHealth |-> [status |-> "unhealthy", error |-> "not supported"]] @@ health
    ELSE health

\* the body GET /health answers with: the backend is probed only when the
\* strategy has a checkHealth, and the top-level status changes only when
\* that call throws
healthReply(strategy, probe, health) ==
    IF strategy # Null /\ hasCheckHealth(strategy)
    THEN LET probed == checkHealth(strategy, probe)
         IN  IF probed.ok
             THEN health @@ [backendHealth |-> probed.value]
             ELSE [status |-> "degraded",
                   backendHealth |-> [status |-> "unhealthy",
                                      error |-> probed.error.message]] @@ health
    ELSE health

GetHealth ==
    /\ Routable
    /\ \E probe \in HealthProbes :
         LET health == [status |-> "healthy", backend |-> config.backend,
                        port |-> IF server # Null THEN Num(server.port) ELSE Null]
         IN  lastResponse' =
               [route |-> "GET /health", status |-> 200, probe |-> probe,
                body |-> healthReply(currentStrategy, probe, health)]
    /\ UNCHANGED <<globalFile, projectFile, envVar, loadOut, app, config, currentStrategy,
                   server, nextInst, inflight, nextReq, delegated, execVars, factoryVars, saveVars, cwdFile, execOp>>
    /\ lastCall' = Null

-----------------------------------------------------------------------------
(* The server under its controlling script and its HTTP clients *)

\* nothing is being saved, the server was given its workspace directory
\* explicitly, and no outbound call is awaited
Unused ==
    /\ savePath = Null
    /\ saveCall = Null
    /\ cwdFile = Null
    /\ execOp = Null

Init ==
    /\ globalFile = Absent
    /\ projectFile \in ProjectFiles
    /\ envVar = Absent
    /\ loadOut = Null
    /\ app = "none"
    /\ config = Null
    /\ currentStrategy = Null
    /\ server = Null
    /\ nextInst = 0
    /\ inflight = {}
    /\ nextReq = 0
    /\ delegated = {}
    /\ lastResponse = Null
    /\ lastCall = Null
    /\ execStrategy = Null
    /\ execBackend = Null
    /\ execOut = Null
    /\ factoryConfig = Null
    /\ factoryOut = Null
    /\ Unused

Next ==
    \/ Initialize
    \/ Start
    \/ Stop
    \/ ReloadConfig
    \/ WriteProjectFile
    \/ PostMessages
    \/ CompleteRequest
    \/ GetRoot
    \/ GetHealth

Spec == Init /\ [][Next]_vars

-----------------------------------------------------------------------------
(* ConfigLoader.load on its own: every combination of the three sources *)

globalEntry == [type |-> "cerebras", apiKey |-> "global-key", apiUrl |-> "https://global/v1"]
projectEntry == [type |-> "self-hosted", url |-> "http://project:8000"]
envEntry == [type |-> "self-hosted", url |-> "http://env:8000", description |-> "env"]

\* the JSON objects made of an optional backend, an optional port and an
\* optional backends map that gives entry to some of names
Objects(actives, ports, names, entry) ==
    {a @@ p @@ b :
        a \in {EmptyObject} \cup {[backend |-> n] : n \in actives},
        p \in {EmptyObject} \cup {[port |-> Num(n)] : n \in ports},
        b \in {EmptyObject} \cup {[backends |-> [n \in present |-> entry]] :
                                    present \in SUBSET names}}

Sources(objects) == {Absent, Malformed} \cup {Json(o) : o \in objects}

GlobalFiles == Sources(Objects({"A"}, {0, 3000}, {"A", "self-hosted"}, globalEntry))

\* entries of an active backend that a strategy cannot be constructed from,
\* next to one of each type that it can
ActiveEntries ==
    {EmptyObject,
     [apiKey |-> "test-key"],
     [type |-> ""],
     [type |-> "invalid-type"],
     [type |-> "cerebras"],
     [type |-> "cerebras", apiKey |-> ""],
     [type |-> "cerebras", apiKey |-> "   "],
     [type |-> "cerebras", apiKey |-> "test-key"],
     [type |-> "self-hosted"],
     [type |-> "self-hosted", url |-> ""],
     [type |-> "self-hosted", url |-> "not-a-url"],
     [type |-> "self-hosted", url |-> "http://localhost:8000"]}

\* .llmrc.json files that select backend A and give it one of these entries
ActiveEntryFiles ==
    {Json([backend |-> "A", backends |-> [A |-> entry]]) : entry \in ActiveEntries}

WorkspaceFiles ==
    Sources(Objects({"A", "B"}, {0, 4000}, {"A", "B"}, projectEntry)) \cup ActiveEntryFiles
EnvValues == Sources(Objects({"B", "self-hosted"}, {5000}, {"B", "self-hosted"}, envEntry))

Idle ==
    /\ app = "none"
    /\ config = Null
    /\ currentStrategy = Null
    /\ server = Null
    /\ nextInst = 0
    /\ inflight = {}
    /\ nextReq = 0
    /\ delegated = {}
    /\ lastResponse = Null
    /\ lastCall = Null

InitLoad ==
    /\ globalFile \in GlobalFiles
    /\ projectFile \in WorkspaceFiles
    /\ envVar \in EnvValues
    /\ loadOut = Null
    /\ Idle
    /\ execStrategy = Null
    /\ execBackend = Null
    /\ execOut = Null
    /\ factoryConfig = Null
    /\ factoryOut = Null
    /\ Unused

Load ==
    /\ loadOut = Null
    /\ loadOut' = load(globalFile, projectFile, envVar)
    /\ UNCHANGED <<globalFile, projectFile, envVar, serverVars, execVars, factoryVars, saveVars, cwdFile, execOp>>

NextLoad == Load

SpecLoad == InitLoad /\ [][NextLoad]_vars

-----------------------------------------------------------------------------
(* The server's start-up on its own: project files with and without a port *)

cfgFixedPort == [cfgCerebras EXCEPT !.port = Num(3000)]
cfgOtherPort == [cfgSelfHosted EXCEPT !.port = Num(8080)]
cfgNoPort == [backend |-> "self-hosted",
              backends |-> ("self-hosted" :> [type |-> "self-hosted",
                                              url |-> "http://localhost:8000"])]

PortFiles == {Json(cfgCerebras), Json(cfgFixedPort), Json(cfgOtherPort), Json(cfgNoPort),
              Json(cfgBadUrl), Json(cfgNonexistent), Absent, Malformed}

InitStart ==
    /\ globalFile = Absent
    /\ projectFile \in PortFiles
    /\ envVar = Absent
    /\ loadOut = Null
    /\ Idle
    /\ execStrategy = Null
    /\ execBackend = Null
    /\ execOut = Null
    /\ factoryConfig = Null
    /\ factoryOut = Null
    /\ Unused

NextStart == Initialize \/ Start \/ Stop

SpecStart == InitStart /\ [][NextStart]_vars

-----------------------------------------------------------------------------
(* Reloading without an argument: the server is initialized with a workspace
   directory that is not the process's working directory *)

\* reloadConfig(): workspaceDir defaults to process.cwd()
ReloadConfigDefault ==
    /\ nextInst < MaxInstances
    /\ LET loaded == load(globalFile, cwdFile, envVar)
           after == afterLoad(loaded)
       IN  /\ config' = after.config
           /\ currentStrategy' = after.strategy
           /\ nextInst' = IF after.result.ok THEN nextInst + 1 ELSE nextInst
           /\ lastCall' = [op |-> "reloadConfig", dir |-> "cwd"] @@ after.result
    /\ UNCHANGED <<globalFile, projectFile, envVar, loadOut, app, server, inflight, nextReq,
                   delegated, execVars, factoryVars, saveVars, cwdFile, execOp>>
    /\ lastResponse' = Null

\* what <process.cwd()>/.llmrc.json holds
CwdFiles == {Absent, Json(cfgCerebras), Json(cfgSelfHosted), Json(cfgNonexistent)}

InitReload ==
    /\ globalFile = Absent
    /\ projectFile \in ProjectFiles
    /\ envVar = Absent
    /\ loadOut = Null
    /\ Idle
    /\ execStrategy = Null
    /\ execBackend = Null
    /\ execOut = Null
    /\ factoryConfig = Null
    /\ factoryOut = Null
    /\ savePath = Null
    /\ saveCall = Null
    /\ cwdFile \in CwdFiles
    /\ execOp = Null

NextReload == Initialize \/ WriteProjectFile \/ ReloadConfigDefault

SpecReload == InitReload /\ [][NextReload]_vars

-----------------------------------------------------------------------------
(* Strategy.executeRequest on its own: every strategy against every outcome *)

ApiKey == "csk-secret"

ExecStrategies ==
    {CerebrasStrategy_constructor([type |-> "cerebras", apiKey |-> ApiKey]).value,
     SelfHostedStrategy_constructor([type |-> "self-hosted",
                                     url |-> "http://localhost:8000"]).value}

SuccessBodies ==
    {AnthropicBody, CerebrasBody, EmptyObject, Null,
     [CerebrasBody EXCEPT !.choices = <<>>],
     [CerebrasBody EXCEPT !.choices = <<[finish_reason |-> "length"]>>],
     [CerebrasBody EXCEPT !.choices = <<[message |-> [role |-> "assistant"],
                                         finish_reason |-> "stop"]>>],
     [CerebrasBody EXCEPT !.choices = <<[message |-> [content |-> "hi"],
                                         finish_reason |-> "length"]>>],
     [choices |-> CerebrasBody.choices],
     [id |-> "chatcmpl-2", model |-> "m", choices |-> <<[message |-> [content |-> "hi"]]>>,
      usage |-> [prompt_tokens |-> 7]],
     [id |-> "chatcmpl-3", model |-> "m",
      choices |-> <<[message |-> [content |-> "first"], finish_reason |-> "length"],
                    [message |-> [content |-> "second"], finish_reason |-> "stop"]>>,
      usage |-> [completion_tokens |-> 9, total_tokens |-> 9]],
     [id |-> "chatcmpl-4", model |-> "m",
      choices |-> <<[message |-> [content |-> "hi"], finish_reason |-> "content_filter"]>>,
      usage |-> Null]}

ErrorTexts ==
    {<<"bad key">>, <<"Invalid API key: ", ApiKey>>, <<"model ", "model", " is ", "not", " loaded">>,
     <<"model 'qwen3-coder' ", "not found">>, <<"upstream ", "timeout">>}

ErrorBodies ==
    {Null, EmptyObject} \cup {[error |-> t] : t \in ErrorTexts}
    \cup {[detail |-> t] : t \in ErrorTexts}

Statuses == {400, 401, 429, 500, 503}

BackendOutcomes ==
    {[data |-> body] : body \in SuccessBodies}
    \cup {[error |-> HttpError(status, data)] : status \in Statuses, data \in ErrorBodies}
    \cup {[error |-> NetworkError(code)] : code \in {"ECONNREFUSED", "ENOTFOUND", "ECONNRESET"}}
    \cup {[error |-> TimeoutError], [error |-> [message |-> <<"Network Error">>]],
          [error |-> [message |-> <<>>]]}

InitExec ==
    /\ globalFile = Absent
    /\ projectFile = Absent
    /\ envVar = Absent
    /\ loadOut = Null
    /\ Idle
    /\ execStrategy \in ExecStrategies
    /\ execBackend \in BackendOutcomes
    /\ execOut = Null
    /\ factoryConfig = Null
    /\ factoryOut = Null
    /\ Unused

Execute ==
    /\ execOut = Null
    /\ execOut' = executeRequest(execStrategy, execBackend)
    /\ UNCHANGED <<globalFile, projectFile, envVar, loadOut, serverVars,
                   execStrategy, execBackend, factoryVars, saveVars, cwdFile, execOp>>

NextExec == Execute

SpecExec == InitExec /\ [][NextExec]_vars

-----------------------------------------------------------------------------
(* SelfHostedStrategy.checkHealth on its own: every probe outcome *)

HealthStrategies ==
    {SelfHostedStrategy_constructor([type |-> "self-hosted", url |-> u]).value :
        u \in {"http://localhost:8000", "http://vast-instance:8000"}}

\* bodies a backend answers GET /health with
HealthBodies ==
    {Null} \cup
    {s @@ e @@ c @@ m :
        s \in {EmptyObject, [status |-> "healthy"], [status |-> "unhealthy"]},
        e \in {EmptyObject, [endpoint |-> "http://other:9000"]},
        c \in {EmptyObject, [components |-> [ollama |-> "healthy", redis |-> "healthy"]]},
        m \in {EmptyObject, [model |-> "qwen3-coder"]}}

\* what axios.get settles with
ProbeOutcomes ==
    {[data |-> body] : body \in HealthBodies}
    \cup {[error |-> NetworkError(code)] : code \in {"ECONNREFUSED", "ENOTFOUND"}}
    \cup {[error |-> HttpError(status, [error |-> <<"down">>])] : status \in {500, 503}}
    \cup {[error |-> [code |-> "ECONNABORTED",
                      message |-> <<"timeout", " of 5000ms exceeded">>]],
          [error |-> [message |-> <<"Network Error">>]]}

InitHealth ==
    /\ globalFile = Absent
    /\ projectFile = Absent
    /\ envVar = Absent
    /\ loadOut = Null
    /\ Idle
    /\ execStrategy \in HealthStrategies
    /\ execBackend \in ProbeOutcomes
    /\ execOut = Null
    /\ factoryConfig = Null
    /\ factoryOut = Null
    /\ Unused

CheckHealth ==
    /\ execOut = Null
    /\ execOut' = checkHealth(execStrategy, execBackend)
    /\ UNCHANGED <<globalFile, projectFile, envVar, loadOut, serverVars,
                   execStrategy, execBackend, factoryVars, saveVars, cwdFile, execOp>>

NextHealth == CheckHealth

SpecHealth == InitHealth /\ [][NextHealth]_vars

-----------------------------------------------------------------------------
(* BackendFactory.createStrategy on its own: every backend entry *)

TypeNames == {"cerebras", "self-hosted", "unknown-backend", "nonexistent", "vast-ai",
              "Cerebras"}

\* createStrategy's argument: nothing, or an object with any of type, apiKey,
\* url and the optional apiUrl and description
FactoryConfigs ==
    {Null} \cup
    {t @@ k @@ u @@ x :
        t \in {EmptyObject, [type |-> ""]} \cup {[type |-> name] : name \in TypeNames},
        k \in {EmptyObject} \cup {[apiKey |-> key] : key \in {"", "   ", "test-key"}},
        u \in {EmptyObject} \cup {[url |-> url] : url \in {"", "   ", "invalid-url",
                                                            "http://localhost:8000"}},
        x \in {EmptyObject, [apiUrl |-> "https://api.cerebras.ai/v1",
                             description |-> "Local proxy"]}}

InitFactory ==
    /\ globalFile = Absent
    /\ projectFile = Absent
    /\ envVar = Absent
    /\ loadOut = Null
    /\ Idle
    /\ execStrategy = Null
    /\ execBackend = Null
    /\ execOut = Null
    /\ factoryConfig \in FactoryConfigs
    /\ factoryOut = Null
    /\ Unused

Create ==
    /\ factoryOut = Null
    /\ factoryOut' = createStrategy(factoryConfig)
    /\ UNCHANGED <<globalFile, projectFile, envVar, loadOut, serverVars, execVars,
                   factoryConfig, saveVars, cwdFile, execOp>>

NextFactory == Create

SpecFactory == InitFactory /\ [][NextFactory]_vars

-----------------------------------------------------------------------------
(* The strategies' outbound calls against a backend that may stay silent *)

\* the backend accepts the connection and never answers
Silent == [silent |-> TRUE]

\* the timeout option of the strategy's axios call in milliseconds; 0, the
\* library's default when the option is not given, means that there is none
requestTimeout(strategy, op) ==
    IF op = "checkHealth" THEN 5000
    ELSE IF strategy.class = "SelfHostedStrategy" THEN 30000
    ELSE 0

\* the error the pending call is rejected with when its timeout elapses
TimeoutErrorAfter(ms) ==
    [code |-> "ECONNABORTED", message |-> <<"timeout", " of ", ToString(ms), "ms exceeded">>]

\* what the strategy's method makes of the settled outbound call
methodOutcome(strategy, op, settled) ==
    IF op = "checkHealth" THEN checkHealth(strategy, settled)
    ELSE executeRequest(strategy, settled)

InitCalls ==
    /\ globalFile = Absent
    /\ projectFile = Absent
    /\ envVar = Absent
    /\ loadOut = Null
    /\ Idle
    /\ execStrategy \in ExecStrategies
    /\ execOp \in {"executeRequest", "checkHealth"}
    /\ execOp = "checkHealth" => hasCheckHealth(execStrategy)
    /\ execBackend \in {Silent} \cup (IF execOp = "checkHealth" THEN ProbeOutcomes
                                       ELSE BackendOutcomes)
    /\ execOut = Null
    /\ factoryConfig = Null
    /\ factoryOut = Null
    /\ savePath = Null
    /\ saveCall = Null
    /\ cwdFile = Null

\* the backend answers or the connection fails: the awaited call settles
Settle ==
    /\ execOut = Null
    /\ execBackend # Silent
    /\ execOut' = methodOutcome(execStrategy, execOp, execBackend)
    /\ UNCHANGED <<globalFile, projectFile, envVar, loadOut, serverVars,
                   execStrategy, execBackend, factoryVars, saveVars, cwdFile, execOp>>

\* the backend stays silent and the call's timeout elapses
TimeoutFires ==
    /\ execOut = Null
    /\ execBackend = Silent
    /\ requestTimeout(execStrategy, execOp) # 0
    /\ execOut' = methodOutcome(execStrategy, execOp,
                     [error |-> TimeoutErrorAfter(requestTimeout(execStrategy, execOp))])
    /\ UNCHANGED <<globalFile, projectFile, envVar, loadOut, serverVars,
                   execStrategy, execBackend, factoryVars, saveVars, cwdFile, execOp>>

NextCalls == Settle \/ TimeoutFires

\* a settled call's continuation runs, and a timer that is due fires
SpecCalls == InitCalls /\ [][NextCalls]_vars /\ WF_vars(NextCalls)

-----------------------------------------------------------------------------
(* ConfigLoader.save on its own: every configuration onto every target file *)

SaveEntries ==
    {[type |-> "cerebras", apiKey |-> "secret-key"],
     [type |-> "cerebras", apiKey |-> ""],
     [type |-> "self-hosted", url |-> "http://localhost:8000"],
     [type |-> "self-hosted", url |-> "http://localhost:8000", password |-> "pw"],
     [type |-> "self-hosted", url |-> "http://localhost:8000", token |-> "tok"]}

\* configurations handed to save: no backends at all, or any of the entries
\* under either name, with either name active
SaveConfigs ==
    {[backend |-> "cerebras"]} \cup
    {[backend |-> active, backends |-> c @@ h] :
        active \in {"cerebras", "self-hosted"},
        c \in {EmptyObject} \cup {[cerebras |-> entry] : entry \in SaveEntries},
        h \in {EmptyObject} \cup {("self-hosted" :> entry) : entry \in SaveEntries}}

\* what the target path holds before the call
TargetFiles ==
    {[exists |-> FALSE]} \cup
    {[exists |-> TRUE, content |-> [backend |-> "self-hosted"], mode |-> mode] :
        mode \in {<<6, 0, 0>>, <<6, 4, 4>>, <<6, 6, 6>>, <<4, 0, 0>>}}

\* the mode a new file gets: 0666 less the umask 022 or 077
CreateModes == {<<6, 4, 4>>, <<6, 0, 0>>}

InitSave ==
    /\ globalFile = Absent
    /\ projectFile = Absent
    /\ envVar = Absent
    /\ loadOut = Null
    /\ Idle
    /\ execStrategy = Null
    /\ execBackend = Null
    /\ execOut = Null
    /\ factoryConfig = Null
    /\ factoryOut = Null
    /\ savePath \in TargetFiles
    /\ saveCall \in {[pc |-> "called", config |-> cfg, createMode |-> mode, before |-> savePath] :
                         cfg \in SaveConfigs, mode \in CreateModes}
    /\ cwdFile = Null
    /\ execOp = Null

\* await fs.ensureDir(...); await fs.writeJson(configPath, config, ...)
SaveWrite ==
    /\ saveCall # Null
    /\ saveCall.pc = "called"
    /\ LET written == writeJson(savePath, saveCall.config, saveCall.createMode)
       IN  IF written.ok
           THEN /\ savePath' = written.value
                /\ saveCall' = [saveCall EXCEPT !.pc = "written"]
           ELSE /\ savePath' = savePath
                /\ saveCall' = [saveCall EXCEPT !.pc = "failed"]
    /\ UNCHANGED <<globalFile, projectFile, envVar, loadOut, serverVars, execVars,
                   factoryVars, cwdFile, execOp>>

\* if (this.configContainsSecrets(config)) await fs.chmod(configPath, 0o600)
SaveChmod ==
    /\ saveCall # Null
    /\ saveCall.pc = "written"
    /\ savePath' = IF configContainsSecrets(saveCall.config)
                   THEN chmod(savePath, OwnerOnly) ELSE savePath
    /\ saveCall' = [saveCall EXCEPT !.pc = "done"]
    /\ UNCHANGED <<globalFile, projectFile, envVar, loadOut, serverVars, execVars,
                   factoryVars, cwdFile, execOp>>

NextSave == SaveWrite \/ SaveChmod

SpecSave == InitSave /\ [][NextSave]_vars

-----------------------------------------------------------------------------
(* Properties of the proxy server *)

PostResponse == lastResponse # Null /\ lastResponse.route = "POST /v1/messages"

\* a body whose messages field is missing, not an array, or an empty array
MessagesUnusable(body) ==
    \/ ~Has(body, "messages")
    \/ ~Has(body.messages, "arr")
    \/ body.messages.arr = <<>>

DefaultRecommendations ==
    <<"Check backend configuration", "Try switching to a different backend">>

StrategyFailed == PostResponse /\ Has(lastResponse, "thrown")

\* C2: when executeRequest throws for a valid request the reply is 500 with
\* the thrown error's message and its recommendations, or the non-empty default
\* list when it carries none; the step that replies leaves the application,
\* the listener, the configuration and the active strategy as they were.
C2_StrategyFailureIs500 ==
    /\ [](StrategyFailed =>
            /\ lastResponse.status = 500
            /\ DOMAIN lastResponse.body = {"error", "recommendations"}
            /\ lastResponse.body.error = lastResponse.thrown.message
            /\ lastResponse.body.recommendations =
                  (IF Has(lastResponse.thrown, "recommendations")
                   THEN lastResponse.thrown.recommendations
                   ELSE DefaultRecommendations)
            /\ lastResponse.body.recommendations # <<>>)
    /\ [][StrategyFailed' =>
            /\ app' = app
            /\ server' = server
            /\ config' = config
            /\ currentStrategy' = currentStrategy]_vars

C2_Witness ==
    /\ StrategyFailed
    /\ ~Has(lastResponse.thrown, "recommendations")
    /\ app = "listening"
    /\ server # Null

\* the strategy is what the factory makes of the backend entry
BuiltFrom(strategy, entry) ==
    /\ Has(entry, "type")
    /\ entry.type = "cerebras" =>
          /\ strategy.class = "CerebrasStrategy"
          /\ Has(entry, "apiKey") /\ strategy.apiKey = entry.apiKey
    /\ entry.type = "self-hosted" =>
          /\ strategy.class = "SelfHostedStrategy"
          /\ Has(entry, "url") /\ strategy.url = entry.url
    /\ entry.type \in {"cerebras", "self-hosted"}

ServesActiveBackend ==
    /\ config # Null
    /\ currentStrategy # Null
    /\ Has(config.backends, config.backend)
    /\ BuiltFrom(currentStrategy, config.backends[config.backend])

ReloadSucceeded == lastCall # Null /\ lastCall.op = "reloadConfig" /\ lastCall.ok

\* C3: once reloadConfig has completed successfully the server holds the
\* configuration the loader produces from the current sources and a strategy
\* built from its active backend; a POST is always delegated to the strategy
\* the server holds at that moment, GET / and GET /health report the held
\* configuration's backend name, and the reload leaves the application state
\* and the bound port untouched.
C3_ReloadSwitchesBackend ==
    /\ [](ReloadSucceeded =>
            /\ load(globalFile, projectFile, envVar).ok
            /\ config = load(globalFile, projectFile, envVar).value
            /\ ServesActiveBackend)
    /\ []((lastResponse # Null /\ lastResponse.route \in {"GET /", "GET /health"})
            => lastResponse.body.backend = config.backend)
    /\ [][/\ \A request \in inflight' \ inflight :
                request.strategy = currentStrategy /\ currentStrategy' = currentStrategy
          /\ (lastCall' # Null /\ lastCall'.op = "reloadConfig")
                => (app' = app /\ server' = server)]_vars

C3_Witness ==
    /\ ReloadSucceeded
    /\ app = "listening"
    /\ server # Null
    /\ config.backend = "self-hosted"
    /\ currentStrategy.class = "SelfHostedStrategy"
    /\ \E request \in inflight : request.strategy.class = "CerebrasStrategy"

\* C4: reloadConfig replaces configuration and strategy together: whenever a
\* reloadConfig call has ended, by returning or by throwing, the strategy the
\* server holds was constructed from config.backends[config.backend] of the
\* configuration it holds.
C4_StrategyMatchesConfig ==
    (lastCall # Null /\ lastCall.op = "reloadConfig" /\ currentStrategy # Null)
        => ServesActiveBackend

\* C5: a request is served by the one strategy instance it was delegated to,
\* whatever reloads happen meanwhile: the reply is what that instance's
\* executeRequest makes of the backend's answer, a reload neither removes nor
\* re-routes a suspended request, and a request is delegated to the instance
\* the server holds when its handler runs.
C5_OneStrategyPerRequest ==
    /\ []((PostResponse /\ Has(lastResponse, "servedBy")) =>
            /\ lastResponse.servedBy = lastResponse.delegatedTo
            /\ LET outcome == executeRequest(lastResponse.delegatedTo, lastResponse.backend)
               IN  IF outcome.ok
                   THEN lastResponse.status = 200 /\ lastResponse.body = outcome.value
                   ELSE lastResponse.status = 500 /\ lastResponse.thrown = outcome.error)
    /\ [][/\ (lastCall' # Null /\ lastCall'.op = "reloadConfig") => inflight' = inflight
          /\ \A request \in inflight' \ inflight : request.strategy = currentStrategy]_vars

C5_Witness ==
    /\ PostResponse
    /\ Has(lastResponse, "servedBy")
    /\ currentStrategy.inst # lastResponse.servedBy.inst
    /\ currentStrategy.class # lastResponse.servedBy.class
    /\ lastResponse.status = 500

-----------------------------------------------------------------------------
(* Properties of executeRequest *)

Executed == execOut # Null

IsNormalizedResponse(value) ==
    /\ DOMAIN value = {"id", "type", "role", "content", "model", "stop_reason",
                       "stop_sequence", "usage"}
    /\ value.type = "message"
    /\ value.role = "assistant"
    /\ Len(value.content) >= 1
    /\ \A i \in 1..Len(value.content) :
          /\ DOMAIN value.content[i] = {"type", "text"}
          /\ value.content[i].type = "text"
    /\ DOMAIN value.usage = {"input_tokens", "output_tokens"}

IsClassifiedError(error) ==
    /\ error.name = "Error"
    /\ error.message # <<>>

\* C6: for both strategies and every backend outcome executeRequest either
\* returns a complete NormalizedResponse or throws a classified error with a
\* message; nothing else.
C6_ResponseOrClassifiedError ==
    Executed =>
        IF execOut.ok THEN IsNormalizedResponse(execOut.value)
        ELSE IsClassifiedError(execOut.error)

\* C7: whatever the upstream error body or transport error text, the error the
\* Cerebras executeRequest throws carries the configured API key neither in
\* its message nor in its recommendations.
C7_ApiKeyNeverInError ==
    (Executed /\ execStrategy.class = "CerebrasStrategy" /\ ~execOut.ok) =>
        /\ ~Includes(execOut.error.message, execStrategy.apiKey)
        /\ Has(execOut.error, "recommendations")
              => ~Includes(execOut.error.recommendations, execStrategy.apiKey)

-----------------------------------------------------------------------------
(* Properties of ConfigLoader.load *)

Loaded == loadOut # Null /\ loadOut.ok

\* the explicit sources in increasing precedence
ExplicitSource(i) == <<globalFile, projectFile, envVar>>[i]
Defines(i, key) == ExplicitSource(i).st = "ok" /\ Has(ExplicitSource(i).json, key)
SomeDefines(key) == \E i \in 1..3 : Defines(i, key)
Highest(key) == CHOOSE i \in 1..3 : Defines(i, key) /\ \A j \in (i + 1)..3 : ~Defines(j, key)
HighestValue(key) == ExplicitSource(Highest(key)).json[key]

LayerBackends(i) ==
    IF i = 0 THEN getDefaultConfig.backends
    ELSE IF Defines(i, "backends") THEN ExplicitSource(i).json.backends
    ELSE EmptyObject
TopLayer(name) == CHOOSE i \in 0..3 : /\ name \in DOMAIN LayerBackends(i)
                                      /\ \A j \in (i + 1)..3 : name \notin DOMAIN LayerBackends(j)

\* C9: the loaded backends map has exactly the names some source defines, and
\* each name carries the whole entry of the highest-precedence source that
\* defines it, with no field of a lower source's entry added.
C9_BackendsKeywiseUnion ==
    Loaded =>
        /\ DOMAIN loadOut.value.backends = UNION {DOMAIN LayerBackends(i) : i \in 0..3}
        /\ \A name \in DOMAIN loadOut.value.backends :
              loadOut.value.backends[name] = LayerBackends(TopLayer(name))[name]

C9_Witness ==
    /\ Loaded
    /\ "A" \in DOMAIN LayerBackends(1) /\ "A" \in DOMAIN LayerBackends(2)
    /\ "B" \in DOMAIN LayerBackends(3) /\ "B" \notin DOMAIN LayerBackends(2)
    /\ loadOut.value.backends["A"] = projectEntry
    /\ loadOut.value.backends["B"] = envEntry
    /\ loadOut.value.backend = "B"

NoExplicitSource == \A i \in 1..3 : ExplicitSource(i).st # "ok"
ExplicitlyDefined(name) == \E i \in 1..3 : name \in DOMAIN LayerBackends(i)

\* what C10 says of the backends and of the active backend name
DefaultsFillBackends ==
    /\ (loadOut # Null /\ NoExplicitSource) => loadOut = Returned(getDefaultConfig)
    /\ (Loaded /\ ~NoExplicitSource) =>
          /\ SomeDefines("backend") /\ loadOut.value.backend = HighestValue("backend")
          /\ \A name \in DOMAIN getDefaultConfig.backends :
                name \in DOMAIN loadOut.value.backends
          /\ \A name \in DOMAIN loadOut.value.backends :
                IF ExplicitlyDefined(name)
                THEN \E i \in 1..3 : /\ name \in DOMAIN LayerBackends(i)
                                     /\ loadOut.value.backends[name] = LayerBackends(i)[name]
                ELSE /\ name \in DOMAIN getDefaultConfig.backends
                     /\ loadOut.value.backends[name] = getDefaultConfig.backends[name]

UsableEntry(entry) ==
    /\ Has(entry, "type")
    /\ entry.type \in {"cerebras", "self-hosted"}
    /\ entry.type = "cerebras" => (Has(entry, "apiKey") /\ entry.apiKey # "")
    /\ entry.type = "self-hosted" => (Has(entry, "url") /\ entry.url \in ParsableURLs)

\* C11: load either throws an Error or returns a configuration whose active
\* backend name is a key of backends and whose active entry has a recognized
\* type, an apiKey if it is managed-cloud, and a syntactically valid url if it
\* is self-hosted.
C11_LoadedConfigUsable ==
    /\ (loadOut # Null /\ ~loadOut.ok) => loadOut.error.name = "Error"
    /\ Loaded =>
          /\ Has(loadOut.value.backends, loadOut.value.backend)
          /\ UsableEntry(loadOut.value.backends[loadOut.value.backend])

-----------------------------------------------------------------------------
(* Properties of the server's start-up and health route *)

\* C12: whenever the server is listening it holds a strategy, so a valid
\* POST /v1/messages is never answered with the failure of dereferencing a
\* strategy that was not constructed.
C12_ListeningHasStrategy ==
    /\ app = "listening" => currentStrategy # Null
    /\ (PostResponse /\ app = "listening" /\ lastResponse.payload # Null
          /\ ~MessagesUnusable(lastResponse.payload))
          => Has(lastResponse, "servedBy")

HealthResponse == lastResponse # Null /\ lastResponse.route = "GET /health"

\* C13: when the backend's health probe fails or the backend reports status
\* unhealthy, GET /health answers 200 with top-level status "degraded".
C13_UnhealthyBackendIsDegraded ==
    (/\ HealthResponse
     /\ currentStrategy # Null
     /\ hasCheckHealth(currentStrategy)
     /\ \/ Has(lastResponse.probe, "error")
        \/ (Has(lastResponse.probe.data, "status")
              /\ lastResponse.probe.data.status = "unhealthy"))
        => /\ lastResponse.status = 200
           /\ lastResponse.body.status = "degraded"

\* C14: with a strategy that has no checkHealth, GET /health answers 200 with
\* top-level status "healthy" and carries no backendHealth at all, whatever
\* the backend would have answered to a probe.
C14_NoCheckHealthIsNotUnhealthy ==
    (HealthResponse /\ currentStrategy # Null /\ ~hasCheckHealth(currentStrategy))
        => /\ lastResponse.status = 200
           /\ lastResponse.body.status = "healthy"
           /\ ~Has(lastResponse.body, "backendHealth")

C14_Witness ==
    /\ HealthResponse
    /\ app = "listening"
    /\ currentStrategy # Null
    /\ currentStrategy.class = "CerebrasStrategy"
    /\ Has(lastResponse.probe, "error")
    /\ lastResponse.body.status = "healthy"

-----------------------------------------------------------------------------
(* Properties of SelfHostedStrategy.checkHealth *)

\* C15: checkHealth always resolves: for a failed probe to exactly
\* {status: "unhealthy", error: "Cannot connect to proxy", endpoint: url}, for
\* an answered probe to the answered body's fields with endpoint set to the
\* configured url.
C15_CheckHealthNeverThrows ==
    Executed =>
        /\ execOut.ok
        /\ Has(execBackend, "error") =>
              execOut.value = [status |-> "unhealthy", error |-> "Cannot connect to proxy",
                               endpoint |-> execStrategy.url]
        /\ Has(execBackend, "data") =>
              LET fields == IF execBackend.data = Null THEN {} ELSE DOMAIN execBackend.data
              IN  /\ DOMAIN execOut.value = fields \cup {"endpoint"}
                  /\ execOut.value.endpoint = execStrategy.url
                  /\ \A key \in fields \ {"endpoint"} :
                        execOut.value[key] = execBackend.data[key]

C15_Witness ==
    /\ Executed
    /\ Has(execBackend, "data")
    /\ execBackend.data # Null
    /\ Has(execBackend.data, "endpoint")
    /\ execBackend.data.endpoint # execStrategy.url
    /\ Has(execBackend.data, "components")
    /\ Has(execBackend.data, "status")
    /\ execOut.value.status = "healthy"
    /\ execOut.value.endpoint = execStrategy.url

-----------------------------------------------------------------------------
(* Properties of BackendFactory.createStrategy *)

Created == factoryOut # Null

TypeGiven == factoryConfig # Null /\ Has(factoryConfig, "type") /\ factoryConfig.type # ""

\* the fields the type of the entry requires are there and well-formed
FieldsValid ==
    /\ factoryConfig.type = "cerebras" =>
          (Has(factoryConfig, "apiKey") /\ factoryConfig.apiKey \notin BlankStrings)
    /\ factoryConfig.type = "self-hosted" =>
          (Has(factoryConfig, "url") /\ factoryConfig.url \in ParsableURLs)

MissingTypeError == Error(<<"Backend configuration missing required field: type">>)

\* what C16 says apart from the content of the unknown-type error
DispatchOnType ==
    /\ ~TypeGiven => factoryOut = Thrown(MissingTypeError)
    /\ (TypeGiven /\ factoryConfig.type = "cerebras" /\ FieldsValid) =>
          (factoryOut.ok /\ factoryOut.value.class = "CerebrasStrategy")
    /\ (TypeGiven /\ factoryConfig.type = "self-hosted" /\ FieldsValid) =>
          (factoryOut.ok /\ factoryOut.value.class = "SelfHostedStrategy")
    /\ (TypeGiven /\ ~isSupported(factoryConfig.type)) =>
          /\ ~factoryOut.ok
          /\ factoryOut.error # MissingTypeError
          /\ factoryOut.error.message = <<"Unknown backend type: ", factoryConfig.type>>
    /\ TypeGiven =>
          (isSupported(factoryConfig.type) <=>
              (factoryOut.ok \/ ~Includes(factoryOut.error.message, "Unknown backend type: ")))
    /\ \A type \in TypeNames \cup {""} :
          isSupported(type) <=> type \in {"cerebras", "self-hosted"}

\* C16 as stated: the factory dispatches on type alone, and the message of
\* the unknown-type error lists the supported type names.
C16_FactoryDispatch_AsStated ==
    Created =>
        /\ DispatchOnType
        /\ (TypeGiven /\ ~isSupported(factoryConfig.type)) =>
              \A i \in 1..Len(getSupportedTypes) :
                  Includes(factoryOut.error.message, getSupportedTypes[i])

\* C16: the factory dispatches on type alone: cerebras gives a
\* CerebrasStrategy, self-hosted a SelfHostedStrategy, no type the
\* missing-type error, and any other type an error whose message names the
\* rejected type and whose supportedTypes property is getSupportedTypes();
\* isSupported is true exactly for the two dispatched types.
C16_FactoryDispatch ==
    Created =>
        /\ DispatchOnType
        /\ (TypeGiven /\ ~isSupported(factoryConfig.type)) =>
              /\ Has(factoryOut.error, "supportedTypes")
              /\ factoryOut.error.supportedTypes = getSupportedTypes
              /\ factoryOut.error.supportedTypes = <<"cerebras", "self-hosted">>

C16_Witness ==
    /\ Created
    /\ TypeGiven
    /\ factoryConfig.type = "vast-ai"
    /\ Has(factoryConfig, "url") /\ factoryConfig.url = "http://localhost:8000"
    /\ ~factoryOut.ok
    /\ factoryOut.error.supportedTypes = <<"cerebras", "self-hosted">>

\* C17: the factory returns or throws exactly what the constructor of the
\* dispatched strategy does: a cerebras entry without a non-blank apiKey
\* throws 'Cerebras strategy requires apiKey', a self-hosted entry without a
\* non-blank url throws 'Self-hosted strategy requires url', one whose url
\* does not parse throws 'Invalid URL format'; the errors carry nothing else
\* and no instance comes into being.
C17_ConstructorValidates ==
    (Created /\ TypeGiven) =>
        /\ factoryConfig.type = "cerebras" =>
              /\ factoryOut = CerebrasStrategy_constructor(factoryConfig)
              /\ (~Has(factoryConfig, "apiKey") \/ factoryConfig.apiKey \in BlankStrings)
                    => factoryOut = Thrown(Error(<<"Cerebras strategy requires apiKey">>))
        /\ factoryConfig.type = "self-hosted" =>
              /\ factoryOut = SelfHostedStrategy_constructor(factoryConfig)
              /\ (~Has(factoryConfig, "url") \/ factoryConfig.url \in BlankStrings)
                    => factoryOut = Thrown(Error(<<"Self-hosted strategy requires url">>))
              /\ (Has(factoryConfig, "url") /\ factoryConfig.url \notin BlankStrings
                    /\ factoryConfig.url \notin ParsableURLs)
                    => factoryOut = Thrown(Error(<<"Invalid URL format">>))

C17_Witness ==
    /\ Created
    /\ TypeGiven
    /\ factoryConfig.type = "self-hosted"
    /\ Has(factoryConfig, "url") /\ factoryConfig.url = "invalid-url"
    /\ Has(factoryConfig, "apiKey")
    /\ factoryOut = Thrown(Error(<<"Invalid URL format">>))

-----------------------------------------------------------------------------
(* Properties of the strategies' response and error handling *)

CerebrasExecuted == Executed /\ execStrategy.class = "CerebrasStrategy"

\* the provider answered with a body that has a first choice with a message
ProviderAnswered ==
    /\ CerebrasExecuted
    /\ Has(execBackend, "data")
    /\ execBackend.data # Null
    /\ Has(execBackend.data, "choices")
    /\ Len(execBackend.data.choices) >= 1
    /\ Has(execBackend.data.choices[1], "message")

\* the provider's counter, 0 when the counter or the usage object is absent
ProviderCounter(key) ==
    IF Has(execBackend.data, "usage") /\ Has(execBackend.data.usage, key)
    THEN execBackend.data.usage[key] ELSE 0

\* C18: on an answer of the provider the result's one content block is a text
\* block with the first choice's message content, stop_reason is "end_turn"
\* for finish_reason "stop" and the finish_reason itself otherwise,
\* stop_sequence is null, and usage has input_tokens from prompt_tokens and
\* output_tokens from completion_tokens, each 0 when absent.
C18_TransformResponse ==
    ProviderAnswered =>
        LET choice == execBackend.data.choices[1]
            result == execOut.value
        IN  /\ execOut.ok
            /\ Len(result.content) = 1
            /\ result.content[1].type = "text"
            /\ Has(choice.message, "content") =>
                  (Has(result.content[1], "text")
                     /\ result.content[1].text = choice.message.content)
            /\ ~Has(choice.message, "content") => ~Has(result.content[1], "text")
            /\ Has(choice, "finish_reason") =>
                  (Has(result, "stop_reason")
                     /\ result.stop_reason = (IF choice.finish_reason = "stop" THEN "end_turn"
                                              ELSE choice.finish_reason))
            /\ ~Has(choice, "finish_reason") => ~Has(result, "stop_reason")
            /\ result.stop_sequence = Null
            /\ result.usage = [input_tokens |-> ProviderCounter("prompt_tokens"),
                               output_tokens |-> ProviderCounter("completion_tokens")]

C18_Witness ==
    /\ ProviderAnswered
    /\ Len(execBackend.data.choices) = 2
    /\ execBackend.data.choices[1].finish_reason = "length"
    /\ ~Has(execBackend.data.usage, "prompt_tokens")
    /\ execOut.value.content = <<[type |-> "text", text |-> "first"]>>
    /\ execOut.value.stop_reason = "length"
    /\ execOut.value.usage = [input_tokens |-> 0, output_tokens |-> 9]

\* the class of a failed managed-cloud call, told from what the call met
CerebrasFailureClass ==
    IF Has(execBackend, "data") THEN "generic"
    ELSE IF Has(execBackend.error, "response")
    THEN CASE execBackend.error.response.status = 401 -> "authentication"
           [] execBackend.error.response.status = 429 -> "rate limit"
           [] execBackend.error.response.status = 503 -> "unavailable"
           [] OTHER -> "http"
    ELSE IF Has(execBackend.error, "code")
            /\ execBackend.error.code \in {"ECONNREFUSED", "ENOTFOUND"}
    THEN "connection"
    ELSE "generic"

\* how the message of each class begins
CerebrasClassMessage ==
    [authentication |-> "Cerebras API authentication failed: ",
     http |-> "Cerebras API error (",
     connection |-> "Cannot connect to Cerebras API. Please check your internet connection.",
     generic |-> "Cerebras API request failed: "]
    @@ ("rate limit" :> "Cerebras API rate limit exceeded. Please try again later or consider using a self-hosted backend.")
    @@ ("unavailable" :> "Cerebras API service unavailable. The service may be experiencing issues.")

\* C19: a failed managed-cloud call throws an Error whose message is the one
\* of its class (authentication, rate limit, unavailable, other HTTP status,
\* connection, generic), the six messages are pairwise distinct, and the
\* error of every class carries a non-empty recommendations list.
C19_CerebrasErrorsClassified ==
    /\ \A c1, c2 \in DOMAIN CerebrasClassMessage :
          c1 # c2 => CerebrasClassMessage[c1] # CerebrasClassMessage[c2]
    /\ (CerebrasExecuted /\ ~execOut.ok) =>
          /\ execOut.error.name = "Error"
          /\ execOut.error.message[1] = CerebrasClassMessage[CerebrasFailureClass]
          /\ Has(execOut.error, "recommendations")
          /\ execOut.error.recommendations # <<>>

SelfHostedExecuted == Executed /\ execStrategy.class = "SelfHostedStrategy"

\* the text of an HTTP error body: its error, else its detail, else nothing
BackendErrorText ==
    LET body == execBackend.error.response.data
    IN  IF Has(body, "error") /\ body.error # <<>> THEN body.error
        ELSE IF Has(body, "detail") /\ body.detail # <<>> THEN body.detail
        ELSE <<>>

ModelNotFoundShaped(text) ==
    Includes(text, "not found") \/ (Includes(text, "model") /\ Includes(text, "not"))

\* the class of a failed self-hosted call, told from what the call met
SelfHostedFailureClass ==
    IF Has(execBackend.error, "response")
    THEN IF ModelNotFoundShaped(BackendErrorText) THEN "model not found" ELSE "http"
    ELSE IF Has(execBackend.error, "code")
            /\ execBackend.error.code \in {"ECONNREFUSED", "ENOTFOUND"}
    THEN "unreachable"
    ELSE IF (Has(execBackend.error, "code") /\ execBackend.error.code = "ECONNABORTED")
            \/ Includes(execBackend.error.message, "timeout")
    THEN "timeout"
    ELSE "generic"

\* how the message of each class begins, and the first of its recommendations
SelfHostedClassMessage ==
    [unreachable |-> "Cannot connect to self-hosted proxy at ",
     timeout |-> "Self-hosted proxy request timed out. The model may be loading or overloaded.",
     http |-> "Self-hosted proxy error (",
     generic |-> "Self-hosted proxy request failed: "]
    @@ ("model not found" :> "Model not loaded on self-hosted proxy: ")

SelfHostedClassAdvice ==
    [unreachable |-> "Check if the Python proxy is running: python3 simple_api_proxy.py",
     timeout |-> "Wait for the model to finish loading",
     http |-> "Check proxy logs for detailed error information",
     generic |-> "Check your network connection"]
    @@ ("model not found" :> "Run: ollama pull qwen3-coder")

\* C20: a failed self-hosted call throws an Error whose message and
\* recommendations are those of its class (unreachable, timeout, model not
\* found, other HTTP error, generic); an HTTP error response is reported as
\* model-not-found or as an HTTP error carrying the status and the backend's
\* error text; the classes' messages and recommendations are pairwise
\* distinct.
C20_SelfHostedErrorsClassified ==
    /\ \A c1, c2 \in DOMAIN SelfHostedClassMessage :
          c1 # c2 => /\ SelfHostedClassMessage[c1] # SelfHostedClassMessage[c2]
                     /\ SelfHostedClassAdvice[c1] # SelfHostedClassAdvice[c2]
    /\ (SelfHostedExecuted /\ Has(execBackend, "error")) =>
          /\ ~execOut.ok
          /\ execOut.error.name = "Error"
          /\ execOut.error.message[1] = SelfHostedClassMessage[SelfHostedFailureClass]
          /\ Has(execOut.error, "recommendations")
          /\ execOut.error.recommendations # <<>>
          /\ execOut.error.recommendations[1] = SelfHostedClassAdvice[SelfHostedFailureClass]
          /\ SelfHostedFailureClass = "model not found" =>
                Includes(execOut.error.recommendations, "Run: ollama pull qwen3-coder")
          /\ SelfHostedFailureClass = "http" =>
                /\ Includes(execOut.error.message,
                            ToString(execBackend.error.response.status))
                /\ \A i \in 1..Len(BackendErrorText) :
                      Includes(execOut.error.message, BackendErrorText[i])

-----------------------------------------------------------------------------
(* Properties of the outbound calls *)

\* C21: every executeRequest and every checkHealth eventually completes, by
\* returning or by throwing, whatever the backend does, a backend that
\* accepts the connection and never answers included.
C21_EveryCallCompletes == <>(execOut # Null)

-----------------------------------------------------------------------------
(* Properties of ConfigLoader.save *)

\* some backend entry, active or not, has a non-empty apiKey, password or token
HoldsSecret(cfg) ==
    /\ Has(cfg, "backends")
    /\ \E name \in DOMAIN cfg.backends, field \in {"apiKey", "password", "token"} :
          Has(cfg.backends[name], field) /\ cfg.backends[name][field] # ""

\* group or others have some permission
LooserThanOwnerOnly(mode) == mode[2] # 0 \/ mode[3] # 0

\* C22: once save has completed for a configuration one of whose backend
\* entries holds a secret, the file at the path has the saved content and
\* mode 0600, whatever was at the path before.
C22_SecretsSavedOwnerOnly ==
    (saveCall # Null /\ saveCall.pc = "done" /\ HoldsSecret(saveCall.config)) =>
        /\ savePath.exists
        /\ savePath.content = saveCall.config
        /\ savePath.mode = <<6, 0, 0>>

C22_Witness ==
    /\ saveCall # Null
    /\ saveCall.pc = "done"
    /\ saveCall.before.exists
    /\ saveCall.before.mode = <<6, 6, 6>>
    /\ saveCall.config.backend = "cerebras"
    /\ Has(saveCall.config, "backends")
    /\ ~Has(saveCall.config.backends, "cerebras")
    /\ Has(saveCall.config.backends, "self-hosted")
    /\ Has(saveCall.config.backends["self-hosted"], "token")
    /\ savePath.mode = <<6, 0, 0>>

\* C30: in no state of a save in progress does the file hold the
\* secret-bearing content with permissions looser than 0600.
C30_NoLooseSecretWindow ==
    (saveCall # Null /\ saveCall.pc \in {"called", "written"}
       /\ HoldsSecret(saveCall.config)
       /\ savePath.exists /\ savePath.content = saveCall.config)
        => ~LooserThanOwnerOnly(savePath.mode)

-----------------------------------------------------------------------------
(* Properties of the server's lifecycle calls *)

StopReturned == lastCall # Null /\ lastCall.op = "stop"

\* C23: stop never throws; on a server that is not listening (never
\* initialized, initialized only, or stopped) it changes nothing; on a
\* listening server it closes the application and drops the listener and
\* changes nothing else; after stop the server is not listening, so a second
\* stop changes nothing.
C23_StopIsSafe ==
    /\ [](app = "listening" => server # Null)
    /\ [](StopReturned => (lastCall.ok /\ server = Null /\ app # "listening"))
    /\ [][(lastCall' # Null /\ lastCall'.op = "stop") =>
            /\ <<config, currentStrategy, nextInst, inflight, nextReq, delegated>>'
                  = <<config, currentStrategy, nextInst, inflight, nextReq, delegated>>
            /\ app = "listening" => (app' = "closed" /\ server' = Null)
            /\ server = Null => (app' = app /\ server' = server)]_vars

C23_Witness ==
    /\ StopReturned
    /\ app = "closed"
    /\ server = Null
    /\ currentStrategy # Null
    /\ inflight # {}

StartReturned == lastCall # Null /\ lastCall.op = "start" /\ lastCall.ok

\* C24: a start that returns has taken the server from uninitialized or
\* initialized to listening, running initialize first (configuration loaded,
\* strategy built) when it was uninitialized; it returns the port the
\* listener is bound to and the URL http://localhost:<that port>; the port is
\* a free port of 8000..8100 when the configured port is "auto" and the
\* configured port otherwise.
C24_StartBindsAndReports ==
    /\ [](StartReturned =>
            /\ app = "listening"
            /\ server = [port |-> lastCall.value.port]
            /\ lastCall.value.url = <<"http://localhost:", ToString(lastCall.value.port)>>
            /\ IF config.port = Str("auto")
               THEN lastCall.value.port \in ScanRange /\ lastCall.value.port \in FreePorts
               ELSE config.port = Num(lastCall.value.port))
    /\ [][(lastCall' # Null /\ lastCall'.op = "start" /\ lastCall'.ok) =>
            /\ app \in {"none", "ready"}
            /\ app = "none" =>
                  /\ config' = load(globalFile, projectFile, envVar).value
                  /\ ServesActiveBackend'
            /\ app = "ready" => (config' = config /\ currentStrategy' = currentStrategy)]_vars

C24_Witness ==
    /\ StartReturned
    /\ config.port = Num(3000)
    /\ server = [port |-> 3000]
    /\ lastCall.value = [port |-> 3000, url |-> <<"http://localhost:", "3000">>]
    /\ currentStrategy # Null

Replied == PostResponse /\ Has(lastResponse, "servedBy")

\* C25: executeRequest is invoked only for a request that has just been
\* received, so at most once per POST; the reply is made from the one
\* outcome of that invocation's outbound call, a failure as a 500 carrying
\* the thrown error; with the reply the request leaves the suspended
\* handlers, so it is neither sent again nor handed to another instance.
C25_NoRetry ==
    /\ [](Replied => /\ \A request \in inflight : request.id # lastResponse.req
                      /\ lastResponse.req \in delegated)
    /\ [][/\ \A request \in inflight' \ inflight :
                /\ request.id = nextReq + 1
                /\ nextReq' = nextReq + 1
                /\ request.id \notin delegated
                /\ inflight' = inflight \cup {request}
          /\ (lastResponse' # Null /\ Has(lastResponse', "servedBy")) =>
                \E request \in inflight :
                    /\ request.id = lastResponse'.req
                    /\ inflight' = inflight \ {request}
                    /\ lastResponse'.servedBy = request.strategy
                    /\ LET outcome == executeRequest(request.strategy, lastResponse'.backend)
                       IN  ~outcome.ok => /\ lastResponse'.status = 500
                                          /\ lastResponse'.thrown = outcome.error
                                          /\ lastResponse'.body.error = outcome.error.message]_vars

C25_Witness ==
    /\ Replied
    /\ Has(lastResponse, "thrown")
    /\ Has(lastResponse.backend, "error")
    /\ Has(lastResponse.backend.error, "code")
    /\ lastResponse.req = 1
    /\ nextReq = 2
    /\ inflight # {}
    /\ currentStrategy.inst # lastResponse.servedBy.inst

-----------------------------------------------------------------------------
(* Further properties of ConfigLoader.load *)

\* C26: whatever load returns, the factory can build a strategy from its
\* active backend entry, so initializeBackend cannot fail after load returned.
C26_LoaderAgreesWithConstructors ==
    Loaded =>
        /\ Has(loadOut.value.backends, loadOut.value.backend)
        /\ createStrategy(loadOut.value.backends[loadOut.value.backend]).ok
        /\ initializeBackend(loadOut.value).ok

-----------------------------------------------------------------------------
(* Properties of reloadConfig without an argument *)

\* C27: after a reloadConfig() without argument has returned, the server's
\* configuration is the one load returns for the workspace directory the
\* server was initialized with.
C27_ReloadReadsSameWorkspace ==
    (lastCall # Null /\ lastCall.op = "reloadConfig" /\ lastCall.ok /\ app # "none") =>
        /\ load(globalFile, projectFile, envVar).ok
        /\ config = load(globalFile, projectFile, envVar).value

\* the source as load sees it when it cannot be read or parsed
Skipped(source) == IF source = Malformed THEN Absent ELSE source

SomeMalformed == Malformed \in {globalFile, projectFile, envVar}

\* C28: load returns or throws exactly what it does with every unreadable or
\* unparsable source taken away; when those were the only sources it returns
\* the built-in default configuration.
C28_MalformedSourceSkipped ==
    loadOut # Null =>
        /\ loadOut = load(Skipped(globalFile), Skipped(projectFile), Skipped(envVar))
        /\ (\A i \in 1..3 : ExplicitSource(i) \in {Absent, Malformed})
              => loadOut = Returned(getDefaultConfig)
        /\ (SomeMalformed /\ ~loadOut.ok) =>
              ~load(Skipped(globalFile), Skipped(projectFile), Skipped(envVar)).ok

C28_Witness ==
    /\ loadOut # Null
    /\ globalFile = Malformed
    /\ projectFile = Absent
    /\ envVar = Malformed
    /\ loadOut = Returned(getDefaultConfig)

\* C29: when some explicit source was read and none of them gives the active
\* backend name, load throws 'Missing required field: backend', although the
\* default backends and port would have been filled in; the default active
\* backend name is returned only when no explicit source was read.
C29_NoDefaultActiveBackend ==
    /\ (loadOut # Null /\ ~NoExplicitSource /\ ~SomeDefines("backend")) =>
          loadOut = Thrown(Error(<<"Missing required field: backend">>))
    /\ (Loaded /\ ~SomeDefines("backend")) =>
          (NoExplicitSource /\ loadOut.value.backend = getDefaultConfig.backend)

C29_Witness ==
    /\ loadOut # Null
    /\ ~loadOut.ok
    /\ Defines(2, "backends") /\ Defines(2, "port")
    /\ Defines(1, "backends")
    /\ envVar = Malformed
    /\ ~SomeDefines("backend")
    /\ loadOut.error.message = <<"Missing required field: backend">>

-----------------------------------------------------------------------------
====
